---- MODULE Spec2Model ----
(***************************************************************************)
(* PromptFabric: the request-processing pipeline (PromptOrchestrator) and  *)
(* the SQLite Memory Store (MemoryManager) it persists conversations in.   *)
(*                                                                         *)
(* Several pipelines (workers sharing one database file) run the public    *)
(* operations concurrently.  Every Memory Store method opens its own       *)
(* connection; Python's sqlite3 opens an implicit transaction in front of  *)
(* the first INSERT/UPDATE/DELETE of a connection and keeps it open until  *)
(* commit(), so the statements of one method are staged in a working copy  *)
(* (work) under the database write lock (wlock) and reach the committed    *)
(* tables (sessions, messages, seq) at commit.  A failing statement or a   *)
(* dying worker drops the working copy (rollback).                         *)
(***************************************************************************)
EXTENDS Naturals, Integers, Sequences, FiniteSets, TLC

\* ------------------------------------------------------------------ bounds
MaxCalls == 2      \* operations started over a run
MaxClock == 1      \* distinct readings of datetime.utcnow()
MaxUuid  == 1      \* identifiers drawn from uuid.uuid4()
MaxLimit == 1      \* largest explicit limit passed to get_messages
MaxRows  == 4      \* rows the messages table is let grow to
MaxTopK  == 2      \* largest top_k passed to search
MaxChunks == 2     \* chunks passed to one add_chunks call
MaxText == 4       \* length of the texts handed to _simple_chunking
MaxChunkSize == 3  \* largest chunk_size a DocumentProcessor is built with

\* --------------------------------------------------------- program constants
DefaultLimit == 50                     \* get_messages(session_id, limit=50)

Procs      == {"p1", "p2"}             \* concurrent pipelines
SessionIds == {"s1"}                   \* caller-supplied session ids
NoSession  == ""                       \* session_id None / empty: "not session_id"
Messages   == {"Hello"}                \* user messages
Contents   == {" Hi there "}           \* contents a backend may return
GeneratorModel == "llama3.2:3b"         \* settings.generator_model
GeneratorSystemPrompt ==                \* settings.generator_system_prompt
    "You are a helpful AI assistant.\nProvide accurate, well-structured responses based on the given context."
ValidatorModel == "phi3:3.8b"           \* settings.validator_model

\* uuid.uuid4(): the n-th generated identifier, never one a caller made up
Uuid(n) == IF n = 1 THEN "u1" ELSE IF n = 2 THEN "u2" ELSE "u3"

AllIds == SessionIds \cup {Uuid(n) : n \in 1..3}

VARIABLES
    sessions,   \* committed table sessions: set of rows
    messages,   \* committed table messages: rows in rowid order
    seq,        \* committed sqlite_sequence of messages (AUTOINCREMENT)
    wlock,      \* pipeline holding the database write lock, or "none"
    work,       \* uncommitted image of the tables of the lock holder
    clock,      \* datetime.utcnow()
    uuids,      \* identifiers generated so far
    calls,      \* operations started so far
    enabled,    \* post_processor.enabled, captured at construction
    backend,    \* the collaborators' configuration and what their backends answer
    pl,         \* per pipeline: operation, position and locals
    index,      \* the vector store: the Chroma collection "context"
    offered,    \* chunks handed to add_chunks so far while the store was up
    cp,         \* the last call made on a collaborator directly, and its outcome
    settings    \* the settings object, as POST /settings has left it

\* the state outside the Memory Store and the pipelines
parts == <<index, offered, cp, settings>>

vars == <<sessions, messages, seq, wlock, work, clock, uuids, calls, enabled, backend, pl,
          parts>>

NoWork == [sessions |-> {}, messages |-> <<>>, seq |-> 0]
NoProcessed == [response |-> "", valid |-> TRUE, issues |-> <<>>, validated |-> FALSE]
NoEnvelope == [kind |-> "none"]

Idle == [op |-> "idle", stage |-> "idle", mcall |-> "none", at |-> 0,
         session_id |-> NoSession, sid |-> NoSession, message |-> "",
         limit |-> 0, now |-> 0, history |-> <<>>, context_text |-> "",
         context_used |-> FALSE,
         refined_prompt |-> "", sent |-> <<>>, attempts |-> 0, content |-> "",
         processed |-> NoProcessed, exc |-> "none", result |-> <<>>, before |-> <<>>, written |-> <<>>,
         envelope |-> NoEnvelope]

\* ------------------------------------------------------------ pure helpers
Min(a, b) == IF a <= b THEN a ELSE b

\* (the reversal forgotten)
Reversed_Not(s) == s

Reversed(s) == [i \in 1..Len(s) |-> s[Len(s) + 1 - i]]

\* rows of one session, in rowid order
RowsOf(msgs, sid) == SelectSeq(msgs, LAMBDA m : m.session_id = sid)

\* ------------------------------------------------------- SQL statements
\* (INSERT OR REPLACE)
InsertOrIgnoreSession_Replace(tbl, id, now) ==
    {r \in tbl : r.session_id # id}
        \cup {[session_id |-> id, created_at |-> now,
                updated_at |-> now, metadata |-> "NULL"]}

\* INSERT OR IGNORE INTO sessions (session_id, created_at, updated_at)
InsertOrIgnoreSession(tbl, id, now) ==
    IF \E r \in tbl : r.session_id = id
    THEN tbl
    ELSE tbl \cup {[session_id |-> id, created_at |-> now,
                    updated_at |-> now, metadata |-> "NULL"]}

\* (an upsert keyed on session and role)
InsertMessage_Upsert(msgs, id, sid, role, content, now) ==
    IF \E i \in 1..Len(msgs) : msgs[i].session_id = sid /\ msgs[i].role = role
    THEN [i \in 1..Len(msgs) |->
            IF msgs[i].session_id = sid /\ msgs[i].role = role
            THEN [msgs[i] EXCEPT !.content = content, !.created_at = now]
            ELSE msgs[i]]
    ELSE Append(msgs, [id |-> id, session_id |-> sid, role |-> role,
                       content |-> content, created_at |-> now])

\* INSERT INTO messages (session_id, role, content, created_at); the
\* FOREIGN KEY clause is declared, but SQLite enforces it only under
\* PRAGMA foreign_keys = ON, which no connection sets
InsertMessage(msgs, id, sid, role, content, now) ==
    Append(msgs, [id |-> id, session_id |-> sid, role |-> role,
                  content |-> content, created_at |-> now])

\* UPDATE sessions SET updated_at = ? WHERE session_id = ?
UpdateSessionTimestamp(tbl, sid, now) ==
    {IF r.session_id = sid THEN [r EXCEPT !.updated_at = now] ELSE r : r \in tbl}

\* (the WHERE clause forgotten)
DeleteMessagesWhere_All(msgs, sid) == <<>>

\* DELETE FROM messages WHERE session_id = ?
DeleteMessagesWhere(msgs, sid) == SelectSeq(msgs, LAMBDA m : m.session_id # sid)

\* DELETE FROM sessions WHERE session_id = ?
DeleteSessionWhere(tbl, sid) == {r \in tbl : r.session_id # sid}

\* (autocommit: every statement is its own transaction)
CommittedAfterStatement_Auto(committed, working) == working

\* What other connections see of a transaction's statement before commit():
\* nothing, the implicit transaction stays open until conn.commit()
CommittedAfterStatement(committed, working) == committed

\* ------------------------------------------------- get_messages' SELECT
\* ORDER BY created_at DESC: every listing of the row positions in S by
\* non-increasing created_at.  SQL leaves the order of rows with equal keys
\* to the engine, so each arrangement of a tie is a possible listing.
RECURSIVE DescOrders(_, _)
DescOrders(rows, S) ==
    IF S = {} THEN {<<>>}
    ELSE UNION {{<<i>> \o o : o \in DescOrders(rows, S \ {i})} :
                i \in {j \in S : \A k \in S : rows[j].created_at >= rows[k].created_at}}

\* the dict built from a fetched row: role, content, created_at
MessageDict(row) == [role |-> row.role, content |-> row.content,
                     created_at |-> row.created_at]

\* SELECT role, content, created_at FROM messages WHERE session_id = ?
\* ORDER BY created_at DESC LIMIT ?, then list(reversed(messages))
GetMessagesResults(msgs, sid, limit) ==
    LET rows == RowsOf(msgs, sid)
    IN  {Reversed([i \in 1..Min(limit, Len(rows)) |-> MessageDict(rows[o[i]])]) :
            o \in DescOrders(rows, 1..Len(rows))}

\* what a call remembers of a row it has committed
Written(row) == [id |-> row.id, role |-> row.role, content |-> row.content]

\* get_session_history: the projection of get_messages to role and content
HistoryOf(ms) == [i \in 1..Len(ms) |-> [role |-> ms[i].role, content |-> ms[i].content]]

\* ------------------------------------------------------------------ strings
Whitespace == {" ", "\n", "\t"}
LowerCase == "abcdefghijklmnopqrstuvwxyz"
UpperCase == "ABCDEFGHIJKLMNOPQRSTUVWXYZ"

\* str.strip(): leading and trailing whitespace removed
RECURSIVE LStrip(_)
LStrip(s) ==
    IF Len(s) > 0 /\ SubSeq(s, 1, 1) \in Whitespace
    THEN LStrip(SubSeq(s, 2, Len(s))) ELSE s

RECURSIVE RStrip(_)
RStrip(s) ==
    IF Len(s) > 0 /\ SubSeq(s, Len(s), Len(s)) \in Whitespace
    THEN RStrip(SubSeq(s, 1, Len(s) - 1)) ELSE s

Strip(s) == RStrip(LStrip(s))

\* str.upper()
UpperChar(c) ==
    IF \E i \in 1..Len(LowerCase) : SubSeq(LowerCase, i, i) = c
    THEN LET i == CHOOSE j \in 1..Len(LowerCase) : SubSeq(LowerCase, j, j) = c
         IN  SubSeq(UpperCase, i, i)
    ELSE c

RECURSIVE Upper(_)
Upper(s) == IF Len(s) = 0 THEN s
            ELSE UpperChar(SubSeq(s, 1, 1)) \o Upper(SubSeq(s, 2, Len(s)))

\* "sub in s"
Contains(s, sub) ==
    \E i \in 1..(Len(s) + 1 - Len(sub)) : SubSeq(s, i, i + Len(sub) - 1) = sub

\* re.search("^" + pattern, s, re.IGNORECASE)
StartsWithIgnoreCase(s, pattern) ==
    /\ Len(s) >= Len(pattern)
    /\ Upper(SubSeq(s, 1, Len(pattern))) = Upper(pattern)

\* re.sub(r"\n{3,}", "\n\n", s): no run of newlines longer than two is left
RECURSIVE CollapseNewlines(_)
CollapseNewlines(s) ==
    IF \E i \in 1..(Len(s) - 2) : SubSeq(s, i, i + 2) = "\n\n\n"
    THEN LET i == CHOOSE j \in 1..(Len(s) - 2) : SubSeq(s, j, j + 2) = "\n\n\n"
         IN  CollapseNewlines(SubSeq(s, 1, i - 1) \o SubSeq(s, i + 1, Len(s)))
    ELSE s

\* ------------------------------------------------------------ ContextBuilder
DefaultTopK == 5                       \* search(query, top_k=5), "request.top_k or 5"

\* the vector store before anything was added: no collection "context" yet
NoIndex == [exists |-> FALSE, docs |-> <<>>]

\* where a call on the vector store fails: nowhere, chromadb cannot be
\* imported, the client cannot be built, or one call on the client raises
SearchFaults == {"none", "import", "client", "get_collection", "count", "query"}
AddFaults    == {"none", "import", "client", "get_or_create"}

\* the distance of a stored text from the query under the embedding
Distance(query, content) == IF content = query THEN 0 ELSE 1

\* collection.query(query_texts=[query], n_results=k): the k nearest documents,
\* nearest first
Nearest(docs, query, k) ==
    LET ranked == SelectSeq(docs, LAMBDA d : Distance(query, d.content) = 0)
                    \o SelectSeq(docs, LAMBDA d : Distance(query, d.content) # 0)
    IN  SubSeq(ranked, 1, Min(k, Len(ranked)))

\* formatted_results: content, id and distance of each document returned
FormattedResults(found, query) ==
    [i \in 1..Len(found) |-> [content |-> found[i].content, id |-> found[i].id,
                              distance |-> Distance(query, found[i].content)]]

\* the body of the try block of _search_chroma.  Chroma rejects n_results <= 0
\* with an exception (a build that answered with no documents would give the
\* same empty list).
SearchChromaTry(fault, idx, query, top_k) ==
    CASE fault = "import"                        -> [exc |-> "none", value |-> <<>>]
      [] fault = "client"                        -> [exc |-> "Exception", value |-> <<>>]
      [] fault = "get_collection" \/ ~idx.exists -> [exc |-> "none", value |-> <<>>]
      [] fault = "count"                         -> [exc |-> "Exception", value |-> <<>>]
      [] Len(idx.docs) = 0                       -> [exc |-> "none", value |-> <<>>]
      [] fault = "query" \/ top_k <= 0           -> [exc |-> "Exception", value |-> <<>>]
      [] OTHER -> [exc |-> "none",
                   value |-> FormattedResults(Nearest(idx.docs, query, top_k), query)]

\* (the outer try forgotten: only the missing collection is handled)
SearchChroma_NoCatch(fault, idx, query, top_k) ==
    SearchChromaTry(fault, idx, query, top_k)

\* _search_chroma: "except Exception: return []"
SearchChroma(fault, idx, query, top_k) ==
    LET t == SearchChromaTry(fault, idx, query, top_k)
    IN  IF t.exc # "none" THEN [exc |-> "none", value |-> <<>>] ELSE t

\* ContextBuilder.search: by vector_db_type; the Qdrant search is a stub
Search(vector_db_type, fault, idx, query, top_k) ==
    IF vector_db_type = "chroma" THEN SearchChroma(fault, idx, query, top_k)
    ELSE [exc |-> "none", value |-> <<>>]

\* (top_k passed on as given)
ServiceTopK_AsGiven(top_k) == top_k

\* ContextService.search: "request.top_k or 5"
ServiceTopK(top_k) == IF top_k = 0 THEN DefaultTopK ELSE top_k

ServiceSearch(vector_db_type, fault, idx, query, top_k) ==
    Search(vector_db_type, fault, idx, query, ServiceTopK(top_k))

\* ids = [f"chunk_{i}" for i in range(len(chunks))]
ChunkIds(n) == [i \in 1..n |-> "chunk_" \o ToString(i - 1)]

\* collection.add(documents, ids): Chroma keeps one document per id.  Of ids
\* the collection already holds, a build either skips the documents (dup =
\* "ignore") or refuses the whole call with an exception (dup = "reject");
\* it refuses a call without documents.
CollectionAdd(docs, ids, documents, dup) ==
    LET held   == {docs[i].id : i \in 1..Len(docs)}
        fresh  == SelectSeq([i \in 1..Len(ids) |-> [id |-> ids[i], content |-> documents[i]]],
                            LAMBDA d : d.id \notin held)
    IN  IF Len(ids) = 0 \/ (dup = "reject" /\ Len(fresh) # Len(ids))
        THEN [exc |-> "Exception", docs |-> docs]
        ELSE [exc |-> "none", docs |-> docs \o fresh]

\* _add_chunks_chroma: everything inside "try ... except Exception: pass".
\* With embeddings, _add_with_embeddings makes the same collection.add call
\* (and repeats it without embeddings when it raised), so the documents kept
\* do not depend on use_embeddings.
AddChunksChroma(fault, idx, chunks, dup) ==
    IF fault # "none" THEN idx
    ELSE [exists |-> TRUE,
          docs |-> CollectionAdd(idx.docs, ChunkIds(Len(chunks)), chunks, dup).docs]

\* ContextBuilder.add_chunks: by vector_db_type; the Qdrant add is a stub
AddChunks(vector_db_type, fault, idx, chunks, dup) ==
    IF vector_db_type = "chroma" THEN AddChunksChroma(fault, idx, chunks, dup) ELSE idx

\* context_text = "\n".join([r.get("content", "") for r in context_results])
RECURSIVE JoinContents(_)
JoinContents(results) ==
    IF Len(results) = 0 THEN ""
    ELSE IF Len(results) = 1 THEN results[1].content
    ELSE results[1].content \o "\n" \o JoinContents(Tail(results))

\* --------------------------------------------------------------- the gateway
\* how a call of llm.generate ends: it returns the model's text, it returns
\* None (a reply whose content is null), or it raises
GatewayReply(text)     == [kind |-> "text", content |-> text, detail |-> ""]
GatewayNone            == [kind |-> "none", content |-> "", detail |-> ""]
GatewayFailure(detail) == [kind |-> "error", content |-> "", detail |-> detail]

\* ------------------------------------ chat_completion of the two gateways
Variants == {"lmstudio", "ollama"}      \* LMStudioGateway, OllamaGateway

\* how requests.post(url, json=payload, timeout=120) ends: without a response
\* (connection refused, timeout), or with a response of some status and body;
\* a body is the JSON object it parses to, or [raw |-> text] when it is no JSON
NoResponse == [kind |-> "network", status |-> 0, body |-> [raw |-> ""]]
HttpResponse(status, body) == [kind |-> "response", status |-> status, body |-> body]

\* what response.json() raises on a body that is no JSON: requests 2.27 and
\* later raise their own JSONDecodeError, a RequestException; earlier
\* releases let the json module's ValueError through
JsonErrors == {"RequestException", "ValueError"}

\* full_messages: the system prompt, "if system_prompt", ahead of messages
FullMessages(system_prompt, msgs) ==
    (IF system_prompt # "" THEN <<[role |-> "system", content |-> system_prompt]>>
     ELSE <<>>) \o msgs

\* response.raise_for_status(): HTTPError for a status from 400 to 599
RaisesForStatus(status) == status >= 400 /\ status < 600

\* result["choices"][0]["message"]["content"], result.get("model", model)
LMStudioResult(result, model) ==
    CASE "choices" \notin DOMAIN result              -> [exc |-> "KeyError", value |-> ""]
      [] Len(result.choices) = 0                     -> [exc |-> "IndexError", value |-> ""]
      [] "message" \notin DOMAIN result.choices[1]   -> [exc |-> "KeyError", value |-> ""]
      [] "content" \notin DOMAIN result.choices[1].message
                                                     -> [exc |-> "KeyError", value |-> ""]
      [] OTHER -> [exc |-> "none", value |-> result.choices[1].message.content]

\* result["message"]["content"], result.get("model", model)
OllamaResult(result, model) ==
    CASE "message" \notin DOMAIN result              -> [exc |-> "KeyError", value |-> ""]
      [] "content" \notin DOMAIN result.message      -> [exc |-> "KeyError", value |-> ""]
      [] OTHER -> [exc |-> "none", value |-> result.message.content]

\* the body of the try block of chat_completion
ChatCompletionTry(variant, http, json_error, model) ==
    CASE http.kind = "network"          -> [exc |-> "RequestException", value |-> ""]
      [] RaisesForStatus(http.status)   -> [exc |-> "RequestException", value |-> ""]
      [] "raw" \in DOMAIN http.body     -> [exc |-> json_error, value |-> ""]
      [] variant = "lmstudio"           -> LMStudioResult(http.body, model)
      [] OTHER                          -> OllamaResult(http.body, model)

\* chat_completion: "except requests.exceptions.RequestException as e: raise
\* Exception(... request failed ...)", the error the gateway raises as its
\* own; any other exception leaves the method as it is
ChatCompletion(variant, http, json_error, model) ==
    LET t == ChatCompletionTry(variant, http, json_error, model)
    IN  IF t.exc = "RequestException" THEN [exc |-> "GatewayError", value |-> ""] ELSE t

\* ----------------------------------------------------- PromptRefiner.refine
\* refinement_prompt: the instruction with the prompt and, "if context:", the
\* context
RefinementPrompt(prompt, context) ==
    "Refine the following user prompt to produce better LLM responses.\n\nOriginal prompt: "
        \o prompt \o "\n"
        \o (IF context # "" THEN "\nRelevant context:\n" \o context ELSE "")
        \o "\n\nProvide a refined, well-structured prompt\n\nRefined prompt:"

\* what the refiner model answers for a prompt
RefinerReply(prompt) == GatewayReply(" Refined: " \o prompt \o "\n")

\* the refined prompt of a refinement that worked
Refined(prompt) == Strip(RefinerReply(prompt).content)

\* the body of the try block: response = self.llm.generate(...);
\* return response.strip()
RefineTry(reply, prompt) ==
    CASE reply.kind = "error" -> [exc |-> "GatewayError", value |-> ""]
      [] reply.kind = "none"  -> [exc |-> "AttributeError", value |-> ""]
      [] OTHER                -> [exc |-> "none", value |-> Strip(reply.content)]

\* (only the gateway's own error caught)
RefinerRefine_GatewayOnly(reply, prompt) ==
    LET t == RefineTry(reply, prompt)
    IN  IF t.exc = "GatewayError" THEN [exc |-> "none", value |-> prompt] ELSE t

\* refine(prompt, context): "except Exception: return prompt"
RefinerRefine(reply, prompt) ==
    LET t == RefineTry(reply, prompt)
    IN  IF t.exc # "none" THEN [exc |-> "none", value |-> prompt] ELSE t

\* (the prompt lost when the refiner fails)
Refine_Empty(up, prompt) ==
    IF up THEN RefinerRefine(RefinerReply(prompt), prompt)
    ELSE [exc |-> "none", value |-> ""]

\* refine as the pipeline meets it: the refiner's gateway call works or fails
Refine(up, prompt) ==
    RefinerRefine(IF up THEN RefinerReply(prompt)
                        ELSE GatewayFailure("connection refused"), prompt)

\* ---------------------------------------------------- ResponsePostProcessor
MinResponseLen == 10

HallucinationPatterns == <<"I don't know because", "As of my knowledge cutoff",
                           "This information might be outdated">>

\* _basic_validation: the issue tags of the rule-based checks, in order
BasicValidation(response) ==
    LET matched == SelectSeq(HallucinationPatterns,
                             LAMBDA pat : StartsWithIgnoreCase(response, pat))
    IN  (IF Len(Strip(response)) = 0 THEN <<"empty_response">> ELSE <<>>)
          \o [i \in 1..Len(matched) |-> "potential_hallucination"]
          \o (IF Len(response) < MinResponseLen THEN <<"response_too_short">> ELSE <<>>)

\* _format_response: newline runs collapsed, then strip(); the rewriting of
\* code fences replaces a text by itself
FormatResponse(response) == Strip(CollapseNewlines(response))

\* (a failing validator counts as a failed validation)
ValidateWithLlm_FailClosed(reply) ==
    CASE reply.kind = "error" ->
            [passed |-> FALSE, issues |-> <<"validation_error: " \o reply.detail>>]
      [] reply.kind = "none" ->
            [passed |-> FALSE, issues |-> <<"validation_error: AttributeError">>]
      [] OTHER ->
            LET passed == Contains(Upper(Strip(reply.content)), "VALID")
            IN  [passed |-> passed,
                 issues |-> IF passed THEN <<>> ELSE <<"llm_validation_failed">>]

\* _validate_with_llm: result.strip().upper(); passed = "VALID" in result;
\* "except Exception as e" answers passed with a validation_error issue
ValidateWithLlm(reply) ==
    CASE reply.kind = "error" ->
            [passed |-> TRUE, issues |-> <<"validation_error: " \o reply.detail>>]
      [] reply.kind = "none" ->
            [passed |-> TRUE, issues |-> <<"validation_error: AttributeError">>]
      [] OTHER ->
            LET passed == Contains(Upper(Strip(reply.content)), "VALID")
            IN  [passed |-> passed,
                 issues |-> IF passed THEN <<>> ELSE <<"llm_validation_failed">>]

\* "if self.validator_model and self.validator_model != settings.generator_model"
DistinctValidator(validator_model) ==
    validator_model # "" /\ validator_model # GeneratorModel

\* process with self.enabled true: lines 33-57
ProcessEnabled(validator_model, reply, response) ==
    LET basic     == BasicValidation(response)
        formatted == FormatResponse(response)
        llm       == ValidateWithLlm(reply)
    IN  IF DistinctValidator(validator_model)
        THEN [response |-> formatted, valid |-> llm.passed,
              issues |-> basic \o llm.issues, validated |-> TRUE]
        ELSE [response |-> formatted, valid |-> (Len(basic) = 0),
              issues |-> basic, validated |-> TRUE]

\* (the enabled flag not consulted)
PostProcessorProcess_AlwaysOn(on, validator_model, reply, response) ==
    ProcessEnabled(validator_model, reply, response)

\* ResponsePostProcessor.process: the passthrough when disabled; otherwise the
\* formatted response with the validation outcome
PostProcessorProcess(on, validator_model, reply, response) ==
    IF ~on
    THEN [response |-> response, valid |-> TRUE, issues |-> <<>>, validated |-> FALSE]
    ELSE ProcessEnabled(validator_model, reply, response)

\* the llm.generate calls process makes
ValidatorCalls(on, validator_model) ==
    IF on /\ DistinctValidator(validator_model) THEN 1 ELSE 0

\* -------------------------------------------------- PromptOrchestrator.process
\* (the user message stored as soon as the prompt is refined)
StageAfter_PersistFirst(stage) ==
    CASE stage = "ResolveSession"   -> "FetchHistory"
      [] stage = "FetchHistory"     -> "RetrieveContext"
      [] stage = "RetrieveContext"  -> "RefinePrompt"
      [] stage = "RefinePrompt"     -> "PersistUser"
      [] stage = "PersistUser"      -> "Generate"
      [] stage = "Generate"         -> "PostProcess"
      [] stage = "PostProcess"      -> "PersistAssistant"
      [] stage = "PersistAssistant" -> "Respond"

\* the fixed order of the stages
StageAfter(stage) ==
    CASE stage = "ResolveSession"   -> "FetchHistory"
      [] stage = "FetchHistory"     -> "RetrieveContext"
      [] stage = "RetrieveContext"  -> "RefinePrompt"
      [] stage = "RefinePrompt"     -> "Generate"
      [] stage = "Generate"         -> "PostProcess"
      [] stage = "PostProcess"      -> "PersistUser"
      [] stage = "PersistUser"      -> "PersistAssistant"
      [] stage = "PersistAssistant" -> "Respond"

\* (the user's message stored while the prompt is refined)
StageCall_SaveEarly(stage) ==
    CASE stage = "ResolveSession"   -> "create_session"
      [] stage = "FetchHistory"     -> "get_messages"
      [] stage = "RefinePrompt"     -> "add_message"
      [] stage = "PersistUser"      -> "add_message"
      [] stage = "PersistAssistant" -> "add_message"
      [] OTHER                      -> "none"

\* the Memory Store method a stage calls
StageCall(stage) ==
    CASE stage = "ResolveSession"   -> "create_session"
      [] stage = "FetchHistory"     -> "get_messages"
      [] stage = "PersistUser"      -> "add_message"
      [] stage = "PersistAssistant" -> "add_message"
      [] OTHER                      -> "none"

\* the stages inside the try block: an exception raised in one of them is
\* caught by "except Exception"; one raised before it leaves process
InTry(stage) == stage \in {"Generate", "PostProcess", "PersistUser", "PersistAssistant"}

\* (messages = history: the list itself, not a copy)
BuildMessages_Alias(history, refined_prompt) ==
    LET msgs == Append(history, [role |-> "user", content |-> refined_prompt])
    IN  [messages |-> msgs, history |-> msgs]

\* messages = history.copy(); messages.append({"role": "user", "content":
\* refined_prompt}): the list handed to chat_completion, and history after it
BuildMessages(history, refined_prompt) ==
    [messages |-> Append(history, [role |-> "user", content |-> refined_prompt]),
     history |-> history]

\* the role and content of the message a Persist stage stores
PersistRole(r) == IF r.stage = "PersistUser" THEN "user" ELSE "assistant"
\* (the refined prompt stored as the user's message)
PersistContent_Refined(r) ==
    IF r.stage = "PersistUser" THEN r.refined_prompt ELSE r.processed.response

PersistContent(r) ==
    IF r.stage = "PersistUser" THEN r.message ELSE r.processed.response

\* (a response found invalid answered as an error)
SuccessEnvelope_ErrorOnInvalid(r) ==
    IF r.processed.valid
    THEN [response |-> r.processed.response, session_id |-> r.sid,
          model |-> GeneratorModel, refined_prompt |-> r.refined_prompt,
          context_used |-> r.context_used, validated |-> r.processed.validated,
          valid |-> r.processed.valid]
    ELSE [response |-> "Error processing request: invalid response",
          session_id |-> r.sid, model |-> GeneratorModel, error |-> TRUE]

\* the envelope of Respond
SuccessEnvelope(r) ==
    [response |-> r.processed.response, session_id |-> r.sid,
     model |-> GeneratorModel, refined_prompt |-> r.refined_prompt,
     context_used |-> r.context_used, validated |-> r.processed.validated,
     valid |-> r.processed.valid]

\* (the session id as the caller gave it)
ErrorEnvelope_AsGiven(r, e) ==
    [response |-> "Error processing request: " \o e, session_id |-> r.session_id,
     model |-> GeneratorModel, error |-> TRUE]

\* the envelope of ErrorRespond
ErrorEnvelope(r, e) ==
    [response |-> "Error processing request: " \o e, session_id |-> r.sid,
     model |-> GeneratorModel, error |-> TRUE]

\* enter a stage: position the pipeline at the stage's store call, if any
Enter(r, stage) ==
    LET r1 == [r EXCEPT !.stage = stage, !.mcall = StageCall(stage), !.at = 0, !.now = 0]
    IN  IF stage = "Respond" THEN [r1 EXCEPT !.envelope = SuccessEnvelope(r)]
        ELSE IF stage = "FetchHistory" THEN [r1 EXCEPT !.limit = DefaultLimit]
        ELSE r1

\* a stage (or a standalone store call) has returned normally
Advance(r) ==
    IF r.op = "process" THEN Enter(r, StageAfter(r.stage))
    ELSE [r EXCEPT !.stage = "Returned", !.mcall = "none", !.at = 0, !.now = 0]

\* (no try block around the stages)
Raise_NoCatch(r, e) ==
    [Idle EXCEPT !.op = r.op, !.stage = "Raised",
                 !.session_id = r.session_id, !.exc = e, !.attempts = r.attempts]

\* a stage (or a standalone store call) has raised e: inside the try block
\* process returns the error envelope; anywhere else the exception leaves
\* the call, and with it the call's locals
Raise(r, e) ==
    IF r.op = "process" /\ InTry(r.stage)
    THEN [Idle EXCEPT !.op = r.op, !.stage = "ErrorRespond",
                      !.session_id = r.session_id, !.sid = r.sid, !.exc = e,
                      !.attempts = r.attempts,
                      !.envelope = ErrorEnvelope(r, e),
                      !.before = r.before, !.written = r.written]
    ELSE [Idle EXCEPT !.op = r.op, !.stage = "Raised",
                      !.session_id = r.session_id, !.exc = e]

\* ------------------------------------------ calls made on a collaborator
Queries         == {"the sky is blue", "sky color"}
ChunkTexts      == {"the sky is blue", "grass is green"}
Prompts         == {"Hello", ""}
Contexts        == {"", "the sky is blue"}   \* context None or "", or a text
Responses       == {"", " Hi ", " Hi there ", "As of my knowledge cutoff, no.",
                    "The sky is blue.\n\n\n\nGrass is green."}
ValidatorOutcomes == {GatewayReply("VALID"), GatewayReply("INVALID"),
                      GatewayReply("No."), GatewayFailure("connection refused")}

\* process over every input the pipelines and the direct calls give it; a
\* table, so that each outcome is computed once
Processed == [on \in BOOLEAN, validator_model \in {ValidatorModel, GeneratorModel, ""},
              reply \in ValidatorOutcomes \cup {GatewayNone},
              response \in Responses \cup Contents |->
                PostProcessorProcess(on, validator_model, reply, response)]

\* bodies a backend (or what answers in its place) sends: the reply of the
\* OpenAI-style API, the reply of Ollama's /api/chat, an error object, a reply
\* with no choice, a message without content, a page that is no JSON
Bodies == {[choices |-> <<[message |-> [role |-> "assistant", content |-> " Hi there "],
                           finish_reason |-> "stop"]>>, model |-> "llama3.2:3b"],
           [message |-> [role |-> "assistant", content |-> " Hi there "],
            model |-> "llama3.2:3b", done_reason |-> "stop"],
           [error |-> "model not found"],
           [choices |-> <<>>],
           [message |-> [role |-> "assistant"]],
           [raw |-> "<html>Bad Gateway</html>"]}
HttpOutcomes == {NoResponse} \cup {HttpResponse(st, b) : st \in {200, 404, 500}, b \in Bodies}

ChunkLists      == UNION {[1..n -> ChunkTexts] : n \in 0..MaxChunks}

NoCall == [op |-> "none", arg |-> "", top_k |-> 0, fault |-> "none",
           context |-> "", sent |-> "", http |-> NoResponse,
           reply |-> GatewayNone, results |-> <<>>, text |-> "",
           processed |-> NoProcessed, exc |-> "none", gateway_calls |-> 0]

\* ------------------------------------------------------------------ state
\* the settings object a ResponsePostProcessor built with enabled = on was
\* built from
SettingsAt(on) == [enable_post_processor |-> on, generator_model |-> GeneratorModel]

\* the database is new and every pipeline is free
FreshStore ==
    /\ sessions = {}
    /\ messages = <<>>
    /\ seq = 0
    /\ wlock = "none"
    /\ work = NoWork
    /\ clock = 0
    /\ uuids = 0
    /\ calls = 0
    /\ pl = [p \in Procs |-> Idle]
    /\ offered = 0

\* and no collaborator has been called yet
Fresh == FreshStore /\ cp = NoCall

\* a vector store holding one chunk
OneChunk == [exists |-> TRUE,
             docs |-> <<[id |-> "chunk_0", content |-> "the sky is blue"]>>]

\* every collaborator is configured as settings.py has it and answers
Working == [vector_db_type |-> "chroma", validator_model |-> ValidatorModel,
            fault |-> "none", refiner_up |-> TRUE, reply |-> GatewayReply("VALID")]

\* concurrent pipelines; every collaborator answers, post-processing is on
Init ==
    /\ Fresh
    /\ enabled = TRUE
    /\ settings = SettingsAt(enabled)
    /\ backend = Working
    /\ index = OneChunk

\* one pipeline; every configuration and behaviour of the collaborators (a
\* setting that the configuration makes idle is kept at its default)
InitOne ==
    /\ Fresh
    /\ enabled \in BOOLEAN
    /\ settings = SettingsAt(enabled)
    /\ backend \in [vector_db_type : {"chroma"},
                    validator_model : {ValidatorModel, GeneratorModel},
                    fault : {"none", "client"}, refiner_up : BOOLEAN,
                    reply : ValidatorOutcomes]
    /\ index \in {NoIndex, OneChunk}
    /\ backend.fault # "none" => index = NoIndex
    /\ ~enabled => backend.validator_model = ValidatorModel
    /\ ValidatorCalls(enabled, backend.validator_model) = 0
            => backend.reply = GatewayReply("VALID")

Committed == [sessions |-> sessions, messages |-> messages, seq |-> seq]

\* datetime.utcnow(): the wall clock has not moved since the last reading,
\* or it has moved on
ClockReadings == {t \in {clock, clock + 1} : t <= MaxClock}

\* the positions at which a call has ended: the envelope returned, the value
\* returned, the exception raised to the caller, the worker dead and restarted
Ended == {"Respond", "ErrorRespond", "Returned", "Raised", "Crashed"}

\* a pipeline takes a request when it runs none; a request goes to the first
\* such pipeline
Available(p) == pl[p].op = "idle" \/ pl[p].stage \in Ended
Free(p) == Available(p) /\ (p = "p1" \/ ~Available("p1"))

\* rows the process calls under way may still insert
RECURSIVE RowsToCome(_)
RowsToCome(P) ==
    IF P = {} THEN 0
    ELSE LET p == CHOOSE q \in P : TRUE
         IN  RowsToCome(P \ {p})
               + (IF pl[p].op = "process" /\ pl[p].stage \notin Ended
                  THEN 2 - Len(pl[p].written) ELSE 0)

\* create_session calls that will still draw a uuid
PendingUuids ==
    Cardinality({p \in Procs : pl[p].mcall = "create_session" /\ pl[p].at = 0
                                /\ pl[p].session_id = NoSession})

\* a statement of the transaction of p leaves w as its working copy
Stage(p, w) ==
    /\ wlock' = p
    /\ work' = w
    /\ sessions' = CommittedAfterStatement(sessions, w.sessions)
    /\ messages' = CommittedAfterStatement(messages, w.messages)
    /\ seq' = CommittedAfterStatement(seq, w.seq)

\* conn.commit(): the working copy becomes the committed tables
Commit(p) ==
    /\ wlock = p
    /\ sessions' = work.sessions
    /\ messages' = work.messages
    /\ seq' = work.seq
    /\ wlock' = "none"
    /\ work' = NoWork

\* the connection of p goes away with its transaction open: rollback
Rollback(p) ==
    /\ wlock' = IF wlock = p THEN "none" ELSE wlock
    /\ work' = IF wlock = p THEN NoWork ELSE work
    /\ UNCHANGED <<sessions, messages, seq>>

\* ------------------------------------------------------- the API operations
\* POST /chat -> orchestrator.process(message, session_id)
CallProcess(p) ==
    /\ Free(p)
    /\ calls < MaxCalls
    /\ Len(messages) + RowsToCome(Procs) + 2 <= MaxRows
    /\ \E m \in Messages, s \in SessionIds \cup {NoSession} :
         /\ s = NoSession => uuids + PendingUuids < MaxUuid
         /\ pl' = [pl EXCEPT ![p] =
                Enter([Idle EXCEPT !.op = "process", !.message = m, !.session_id = s,
                                   !.before = RowsOf(messages, s)],
                      "ResolveSession")]
    /\ calls' = calls + 1
    /\ UNCHANGED <<sessions, messages, seq, wlock, work, clock, uuids, enabled, backend, parts>>

\* POST /memory, POST /memory/{session_id} -> create_session(session_id)
CallCreateSession(p) ==
    /\ Free(p)
    /\ calls < MaxCalls
    /\ \E s \in SessionIds \cup {NoSession} :
         /\ s = NoSession => uuids + PendingUuids < MaxUuid
         /\ pl' = [pl EXCEPT ![p] =
                [Idle EXCEPT !.op = "create_session", !.stage = "call",
                             !.mcall = "create_session", !.session_id = s]]
    /\ calls' = calls + 1
    /\ UNCHANGED <<sessions, messages, seq, wlock, work, clock, uuids, enabled, backend, parts>>

\* DELETE /memory/{session_id} -> delete_session(session_id)
CallDeleteSession(p) ==
    /\ Free(p)
    /\ calls < MaxCalls
    /\ \E s \in SessionIds :
         pl' = [pl EXCEPT ![p] =
                [Idle EXCEPT !.op = "delete_session", !.stage = "call",
                             !.mcall = "delete_session", !.session_id = s, !.sid = s]]
    /\ calls' = calls + 1
    /\ UNCHANGED <<sessions, messages, seq, wlock, work, clock, uuids, enabled, backend, parts>>

\* GET /memory/{session_id} -> get_messages(session_id, limit)
CallGetMessages(p) ==
    /\ Free(p)
    /\ calls < MaxCalls
    /\ \E s \in SessionIds, n \in (0..MaxLimit) \cup {DefaultLimit} :
         pl' = [pl EXCEPT ![p] =
                [Idle EXCEPT !.op = "get_messages", !.stage = "call",
                             !.mcall = "get_messages", !.session_id = s, !.sid = s,
                             !.limit = n]]
    /\ calls' = calls + 1
    /\ UNCHANGED <<sessions, messages, seq, wlock, work, clock, uuids, enabled, backend, parts>>

\* ------------------------------------------------ MemoryManager.create_session
\* "if not session_id: session_id = str(uuid.uuid4())"; connect; now = utcnow()
CreateSessionBegin(p) ==
    LET r == pl[p] IN
    /\ r.mcall = "create_session" /\ r.at = 0
    /\ r.session_id = NoSession => uuids < MaxUuid
    /\ uuids' = IF r.session_id = NoSession THEN uuids + 1 ELSE uuids
    /\ \E t \in ClockReadings :
         /\ clock' = t
         /\ pl' = [pl EXCEPT ![p] =
                  [r EXCEPT !.sid = IF r.session_id = NoSession
                                    THEN Uuid(uuids + 1) ELSE r.session_id,
                            !.now = t, !.at = 1]]
    /\ UNCHANGED <<sessions, messages, seq, wlock, work, calls, enabled, backend, parts>>

\* cursor.execute("INSERT OR IGNORE INTO sessions ...")
CreateSessionInsert(p) ==
    LET r == pl[p] IN
    /\ r.mcall = "create_session" /\ r.at = 1
    /\ wlock = "none"
    /\ Stage(p, [Committed EXCEPT
                   !.sessions = InsertOrIgnoreSession(sessions, r.sid, r.now)])
    /\ pl' = [pl EXCEPT ![p] = [r EXCEPT !.at = 2]]
    /\ UNCHANGED <<clock, uuids, calls, enabled, backend, parts>>

\* conn.commit(); conn.close(); return session_id
CreateSessionCommit(p) ==
    LET r == pl[p] IN
    /\ r.mcall = "create_session" /\ r.at = 2
    /\ Commit(p)
    /\ pl' = [pl EXCEPT ![p] = Advance(r)]
    /\ UNCHANGED <<clock, uuids, calls, enabled, backend, parts>>

\* --------------------------------------------------- MemoryManager.add_message
\* connect; now = utcnow()
AddMessageBegin(p) ==
    LET r == pl[p] IN
    /\ r.mcall = "add_message" /\ r.at = 0
    /\ \E t \in ClockReadings :
         /\ clock' = t
         /\ pl' = [pl EXCEPT ![p] = [r EXCEPT !.now = t, !.at = 1]]
    /\ UNCHANGED <<sessions, messages, seq, wlock, work, uuids, calls, enabled, backend, parts>>

\* cursor.execute("INSERT INTO messages ...")
AddMessageInsert(p) ==
    LET r == pl[p] IN
    /\ r.mcall = "add_message" /\ r.at = 1
    /\ wlock = "none"
    /\ Stage(p, [Committed EXCEPT
                   !.messages = InsertMessage(messages, seq + 1, r.sid,
                                              PersistRole(r), PersistContent(r), r.now),
                   !.seq = seq + 1])
    /\ pl' = [pl EXCEPT ![p] = [r EXCEPT !.at = 2]]
    /\ UNCHANGED <<clock, uuids, calls, enabled, backend, parts>>

\* cursor.execute("UPDATE sessions SET updated_at = ? ...")
AddMessageUpdate(p) ==
    LET r == pl[p] IN
    /\ r.mcall = "add_message" /\ r.at = 2
    /\ wlock = p
    /\ Stage(p, [work EXCEPT
                   !.sessions = UpdateSessionTimestamp(work.sessions, r.sid, r.now)])
    /\ pl' = [pl EXCEPT ![p] = [r EXCEPT !.at = 3]]
    /\ UNCHANGED <<clock, uuids, calls, enabled, backend, parts>>

\* conn.commit(); conn.close()
AddMessageCommit(p) ==
    LET r == pl[p] IN
    /\ r.mcall = "add_message" /\ r.at = 3
    /\ Commit(p)
    /\ pl' = [pl EXCEPT ![p] =
                Advance([r EXCEPT !.written =
                            Append(@, Written(work.messages[Len(work.messages)]))])]
    /\ UNCHANGED <<clock, uuids, calls, enabled, backend, parts>>

\* -------------------------- MemoryManager.get_messages / get_session_history
GetMessagesSelect(p) ==
    LET r == pl[p] IN
    /\ r.mcall = "get_messages" /\ r.at = 0
    /\ \E res \in GetMessagesResults(messages, r.sid, r.limit) :
         pl' = [pl EXCEPT ![p] =
                  IF r.op = "process"
                  THEN Advance([r EXCEPT !.history = HistoryOf(res)])
                  ELSE Advance([r EXCEPT !.result = res])]
    /\ UNCHANGED <<sessions, messages, seq, wlock, work, clock, uuids, calls, enabled, backend, parts>>

\* ------------------------------------------------ MemoryManager.delete_session
\* cursor.execute("DELETE FROM messages WHERE session_id = ?")
DeleteSessionMessages(p) ==
    LET r == pl[p] IN
    /\ r.mcall = "delete_session" /\ r.at = 0
    /\ wlock = "none"
    /\ Stage(p, [Committed EXCEPT !.messages = DeleteMessagesWhere(messages, r.sid)])
    /\ pl' = [pl EXCEPT ![p] = [r EXCEPT !.at = 1]]
    /\ UNCHANGED <<clock, uuids, calls, enabled, backend, parts>>

\* cursor.execute("DELETE FROM sessions WHERE session_id = ?")
DeleteSessionRow(p) ==
    LET r == pl[p] IN
    /\ r.mcall = "delete_session" /\ r.at = 1
    /\ wlock = p
    /\ Stage(p, [work EXCEPT !.sessions = DeleteSessionWhere(work.sessions, r.sid)])
    /\ pl' = [pl EXCEPT ![p] = [r EXCEPT !.at = 2]]
    /\ UNCHANGED <<clock, uuids, calls, enabled, backend, parts>>

\* conn.commit(); conn.close()
DeleteSessionCommit(p) ==
    LET r == pl[p] IN
    /\ r.mcall = "delete_session" /\ r.at = 2
    /\ Commit(p)
    /\ pl' = [pl EXCEPT ![p] = Advance(r)]
    /\ UNCHANGED <<clock, uuids, calls, enabled, backend, parts>>

\* ------------------------------------------------------- failures of the store
\* a sqlite3 call of the method raises (disk, corruption, "database is
\* locked"); the connection is dropped with its transaction uncommitted
StorageFault(p) ==
    LET r == pl[p] IN
    /\ r.mcall # "none"
    /\ Rollback(p)
    /\ pl' = [pl EXCEPT ![p] = Raise(r, "StorageError")]
    /\ UNCHANGED <<clock, uuids, calls, enabled, backend, parts>>

\* the worker dies inside a store method; SQLite rolls the open transaction
\* back from its journal
Crash(p) ==
    LET r == pl[p] IN
    /\ r.mcall # "none" /\ wlock = p
    /\ Rollback(p)
    /\ pl' = [pl EXCEPT ![p] = [Idle EXCEPT !.op = r.op, !.stage = "Crashed",
                                             !.session_id = r.session_id]]
    /\ UNCHANGED <<clock, uuids, calls, enabled, backend, parts>>

\* ------------------------------------------ the stages between the store calls
\* context_results = self.context.search(message, top_k=5)
RetrieveContext(p) ==
    LET r == pl[p] IN
    /\ r.op = "process" /\ r.stage = "RetrieveContext"
    /\ LET out == Search(backend.vector_db_type, backend.fault, index,
                         r.message, DefaultTopK)
           context_results == out.value
       IN  pl' = [pl EXCEPT ![p] =
                    IF out.exc # "none" THEN Raise(r, out.exc)
                    ELSE Advance([r EXCEPT !.context_text = JoinContents(context_results),
                                           !.context_used = Len(context_results) > 0])]
    /\ UNCHANGED <<sessions, messages, seq, wlock, work, clock, uuids, calls, enabled, backend, parts>>

\* refined_prompt = self.refiner.refine(message, context_text)
RefinePrompt(p) ==
    LET r == pl[p] IN
    /\ r.op = "process" /\ r.stage = "RefinePrompt"
    /\ LET out == Refine(backend.refiner_up, r.message)
       IN  pl' = [pl EXCEPT ![p] =
                    IF out.exc # "none" THEN Raise(r, out.exc)
                    ELSE Advance([r EXCEPT !.refined_prompt = out.value])]
    /\ UNCHANGED <<sessions, messages, seq, wlock, work, clock, uuids, calls, enabled, backend, parts>>

\* messages built from history; response = self.llm.chat_completion(messages,
\* ..., system_prompt=settings.generator_system_prompt); content =
\* response["content"]
Generate(p) ==
    LET r == pl[p] IN
    /\ r.op = "process" /\ r.stage = "Generate"
    /\ \E c \in Contents :
         LET built == BuildMessages(r.history, r.refined_prompt)
         IN  pl' = [pl EXCEPT ![p] =
                      Advance([r EXCEPT !.content = c, !.history = built.history,
                                        !.sent = FullMessages(GeneratorSystemPrompt,
                                                              built.messages),
                                        !.attempts = @ + 1])]
    /\ UNCHANGED <<sessions, messages, seq, wlock, work, clock, uuids, calls, enabled, backend, parts>>

\* chat_completion raises: "except Exception as e"
GenerateFail(p) ==
    LET r == pl[p] IN
    /\ r.op = "process" /\ r.stage = "Generate"
    /\ pl' = [pl EXCEPT ![p] = Raise([r EXCEPT !.attempts = @ + 1], "GatewayError")]
    /\ UNCHANGED <<sessions, messages, seq, wlock, work, clock, uuids, calls, enabled, backend, parts>>

\* processed = self.post_processor.process(...); final_response =
\* processed["response"]; history and messages are not used again
PostProcess(p) ==
    LET r == pl[p] IN
    /\ r.op = "process" /\ r.stage = "PostProcess"
    /\ pl' = [pl EXCEPT ![p] =
                Advance([r EXCEPT !.processed =
                            Processed[enabled, backend.validator_model,
                                      backend.reply, r.content],
                                  !.history = <<>>, !.sent = <<>>])]
    /\ UNCHANGED <<sessions, messages, seq, wlock, work, clock, uuids, calls, enabled, backend, parts>>

Step(p) ==
         \/ CallProcess(p) \/ CallCreateSession(p) \/ CallDeleteSession(p)
         \/ CallGetMessages(p)
         \/ CreateSessionBegin(p) \/ CreateSessionInsert(p) \/ CreateSessionCommit(p)
         \/ AddMessageBegin(p) \/ AddMessageInsert(p) \/ AddMessageUpdate(p)
         \/ AddMessageCommit(p)
         \/ GetMessagesSelect(p)
         \/ DeleteSessionMessages(p) \/ DeleteSessionRow(p) \/ DeleteSessionCommit(p)
         \/ StorageFault(p) \/ Crash(p)
         \/ RetrieveContext(p) \/ RefinePrompt(p) \/ Generate(p) \/ GenerateFail(p)
         \/ PostProcess(p)

Next == \E p \in Procs : Step(p)

NextOne == Step("p1")

Spec == Init /\ [][Next]_vars

\* ----------------------------------------- the collaborators called directly
\* nothing stored, nothing indexed; every configuration of the collaborators
InitParts ==
    /\ Fresh
    /\ enabled \in BOOLEAN
    /\ settings = SettingsAt(enabled)
    /\ backend \in [vector_db_type : {"chroma", "qdrant"},
                    validator_model : {ValidatorModel, GeneratorModel, ""},
                    fault : {"none"}, refiner_up : {TRUE},
                    reply : {GatewayReply("VALID")}]
    /\ index = NoIndex

\* A call that only answers leaves nothing but its record behind, so the call
\* after it starts from the state it started from: calls are taken from the
\* states in which the vector store was last written.
Settled == cp.op \in {"none", "add_chunks"}

\* context_builder.search(query, top_k)
CallSearch ==
    /\ Settled
    /\ \E q \in Queries, k \in 0..MaxTopK, f \in SearchFaults :
         LET out == Search(backend.vector_db_type, f, index, q, k)
         IN  cp' = [NoCall EXCEPT !.op = "search", !.arg = q, !.top_k = k, !.fault = f,
                                  !.results = out.value, !.exc = out.exc]
    /\ UNCHANGED <<sessions, messages, seq, wlock, work, clock, uuids, calls, enabled,
                   backend, pl, index, offered, settings>>

\* POST /context/search -> context_service.search(request)
CallServiceSearch ==
    /\ Settled
    /\ \E q \in Queries, k \in 0..MaxTopK, f \in SearchFaults :
         LET out == ServiceSearch(backend.vector_db_type, f, index, q, k)
         IN  cp' = [NoCall EXCEPT !.op = "service_search", !.arg = q, !.top_k = k,
                                  !.fault = f, !.results = out.value, !.exc = out.exc]
    /\ UNCHANGED <<sessions, messages, seq, wlock, work, clock, uuids, calls, enabled,
                   backend, pl, index, offered, settings>>

\* context_builder.add_chunks(chunks, use_embeddings=True)
CallAddChunks ==
    /\ Settled
    /\ calls < MaxCalls
    /\ \E chunks \in ChunkLists, f \in AddFaults, dup \in {"ignore", "reject"} :
         /\ index' = AddChunks(backend.vector_db_type, f, index, chunks, dup)
         /\ offered' = IF backend.vector_db_type = "chroma" /\ f = "none"
                       THEN offered + Len(chunks) ELSE offered
         /\ cp' = [NoCall EXCEPT !.op = "add_chunks"]
    /\ calls' = calls + 1
    /\ UNCHANGED <<sessions, messages, seq, wlock, work, clock, uuids, enabled,
                   backend, pl, settings>>

\* prompt_refiner.refine(prompt, context)
CallRefine ==
    /\ Settled
    /\ \E prompt \in Prompts, context \in Contexts :
       \E reply \in {RefinerReply(prompt), GatewayNone, GatewayFailure("connection refused")} :
         LET out == RefinerRefine(reply, prompt)
         IN  cp' = [NoCall EXCEPT !.op = "refine", !.arg = prompt, !.reply = reply,
                                  !.context = context,
                                  !.sent = RefinementPrompt(prompt, context),
                                  !.text = out.value, !.exc = out.exc,
                                  !.gateway_calls = 1]
    /\ UNCHANGED <<sessions, messages, seq, wlock, work, clock, uuids, calls, enabled,
                   backend, pl, index, offered, settings>>

\* post_processor.process(response, original_prompt, context)
CallPostProcess ==
    /\ Settled
    /\ \E response \in Responses, reply \in ValidatorOutcomes \cup {GatewayNone} :
         cp' = [NoCall EXCEPT
                  !.op = "process", !.arg = response, !.reply = reply,
                  !.processed = PostProcessorProcess(enabled, backend.validator_model,
                                                     reply, response),
                  !.gateway_calls = ValidatorCalls(enabled, backend.validator_model)]
    /\ UNCHANGED <<sessions, messages, seq, wlock, work, clock, uuids, calls, enabled,
                   backend, pl, index, offered, settings>>

\* llm_gateway.chat_completion(messages, model, ...)
CallChatCompletion ==
    /\ Settled
    /\ \E v \in Variants, h \in HttpOutcomes, je \in JsonErrors :
         LET out == ChatCompletion(v, h, je, GeneratorModel)
         IN  cp' = [NoCall EXCEPT !.op = "chat_completion", !.arg = v, !.http = h,
                                  !.text = out.value, !.exc = out.exc,
                                  !.gateway_calls = 1]
    /\ UNCHANGED <<sessions, messages, seq, wlock, work, clock, uuids, calls, enabled,
                   backend, pl, index, offered, settings>>

\* ------------------------------------------ DocumentProcessor._simple_chunking
ChunkSize == 500                       \* DocumentProcessor(chunk_size=500,
ChunkOverlap == 50                     \*                   chunk_overlap=50)

\* text[start:end] for 0 <= start <= end: the slice stops at the end of text
Slice(text, start, end) == SubSeq(text, start + 1, Min(end, Len(text)))

\* (the overlap added to the end of the chunk)
NextStart_Past(end, chunk_overlap) == end + chunk_overlap

\* start = end - self.chunk_overlap
NextStart(end, chunk_overlap) == end - chunk_overlap

\* [c for c in chunks if c]
NonEmpty(chunks) == SelectSeq(chunks, LAMBDA c : c # "")

\* the texts of n characters
Chars == {"a", "b", " "}
RECURSIVE TextsOfLen(_)
TextsOfLen(n) == IF n = 0 THEN {""}
                 ELSE {c \o t : c \in Chars, t \in TextsOfLen(n - 1)}

\* n copies of a sentence
Paragraph == "The quick brown fox jumps over the lazy dog again. "
RECURSIVE Paragraphs(_)
Paragraphs(n) == IF n = 0 THEN "" ELSE Paragraph \o Paragraphs(n - 1)

\* the calls made: short texts under every small chunk_size and overlap below
\* it, and texts of some hundred characters under the configured sizes
Chunkings ==
    {[text |-> t, chunk_size |-> cs, chunk_overlap |-> co] :
        t \in UNION {TextsOfLen(n) : n \in 0..MaxText},
        cs \in 1..MaxChunkSize, co \in 0..(MaxChunkSize - 1)}
    \cup {[text |-> Paragraphs(n), chunk_size |-> ChunkSize,
           chunk_overlap |-> ChunkOverlap] : n \in {9, 10, 19}}

\* document_processor._simple_chunking(text) has been entered: chunks = [],
\* start = 0
InitChunking ==
    /\ FreshStore
    /\ enabled = TRUE
    /\ settings = SettingsAt(enabled)
    /\ backend = Working
    /\ index = NoIndex
    /\ \E c \in Chunkings :
         /\ c.chunk_overlap < c.chunk_size
         /\ cp = [op |-> "simple_chunking", text |-> c.text,
                  chunk_size |-> c.chunk_size, chunk_overlap |-> c.chunk_overlap,
                  start |-> 0, chunks |-> <<>>, returned |-> FALSE, result |-> <<>>]

\* one turn of "while start < len(text)"
ChunkingLoop ==
    /\ cp.op = "simple_chunking" /\ ~cp.returned
    /\ cp.start < Len(cp.text)
    /\ LET end   == cp.start + cp.chunk_size
           chunk == Slice(cp.text, cp.start, end)
       IN  cp' = [cp EXCEPT !.chunks = Append(@, Strip(chunk)),
                            !.start = NextStart(end, cp.chunk_overlap)]
    /\ UNCHANGED <<sessions, messages, seq, wlock, work, clock, uuids, calls, enabled,
                   backend, pl, index, offered, settings>>

\* the loop is left: return [c for c in chunks if c]
ChunkingReturn ==
    /\ cp.op = "simple_chunking" /\ ~cp.returned
    /\ ~(cp.start < Len(cp.text))
    /\ cp' = [cp EXCEPT !.result = NonEmpty(cp.chunks), !.returned = TRUE]
    /\ UNCHANGED <<sessions, messages, seq, wlock, work, clock, uuids, calls, enabled,
                   backend, pl, index, offered, settings>>

NextChunking == ChunkingLoop \/ ChunkingReturn

\* a call of _simple_chunking, run as long as it has a statement to run
SpecChunking == InitChunking /\ [][NextChunking]_vars /\ WF_vars(NextChunking)

\* ------------------------------------------------------------ POST /settings
\* request bodies: the keys update_settings looks for.  generator_model is
\* sent with the value in force.
SettingsRequests ==
    {[enable_post_processor |-> b] : b \in BOOLEAN}
        \cup {[generator_model |-> GeneratorModel]}
        \cup {[enable_post_processor |-> b, generator_model |-> GeneratorModel] :
                    b \in BOOLEAN}

\* settings.<key> = request[<key>] for each key the request has
ApplySettings(current, request) ==
    [current EXCEPT
        !.enable_post_processor =
            IF "enable_post_processor" \in DOMAIN request
            THEN request.enable_post_processor ELSE @,
        !.generator_model =
            IF "generator_model" \in DOMAIN request THEN request.generator_model ELSE @]

\* (process reading the setting at each call)
EnabledAfterUpdate_Live(captured, request) ==
    IF "enable_post_processor" \in DOMAIN request
    THEN request.enable_post_processor ELSE captured

\* post_processor.enabled after update_settings: the handler assigns to the
\* settings object only; self.enabled was read from it once, in __init__
EnabledAfterUpdate(captured, request) == captured

\* POST /settings -> update_settings(request).  The Settings class declares no
\* field enable_post_processor: the settings object either carries the
\* attribute and takes the assignment, or refuses it with an exception that
\* ends the handler before the other keys are read.  The handlers are
\* coroutines of one event loop and chat blocks it for the whole of process:
\* a settings request is served between chat requests.
UpdateSettings ==
    /\ \A p \in Procs : Available(p)
    /\ \E request \in SettingsRequests, accepted \in BOOLEAN :
         /\ settings' = IF accepted \/ "enable_post_processor" \notin DOMAIN request
                        THEN ApplySettings(settings, request) ELSE settings
         /\ enabled' = EnabledAfterUpdate(enabled, request)
    /\ UNCHANGED <<sessions, messages, seq, wlock, work, clock, uuids, calls,
                   backend, pl, index, offered, cp>>

NextParts ==
    \/ CallSearch \/ CallServiceSearch \/ CallAddChunks \/ CallRefine \/ CallPostProcess
    \/ CallChatCompletion

SpecParts == InitParts /\ [][NextParts]_vars

SpecOne == InitOne /\ [][NextOne]_vars

\* the steps inside a process call: every blocking call a pipeline makes
\* (store statement, index query, HTTP call with its 120 s timeout) returns or
\* raises, and the worker then runs on.  Taking a new request, a failure of
\* the store and the death of the worker are not owed to anybody.
Progress(p) ==
    \/ CreateSessionBegin(p) \/ CreateSessionInsert(p) \/ CreateSessionCommit(p)
    \/ AddMessageBegin(p) \/ AddMessageInsert(p) \/ AddMessageUpdate(p)
    \/ AddMessageCommit(p)
    \/ GetMessagesSelect(p)
    \/ RetrieveContext(p) \/ RefinePrompt(p) \/ Generate(p) \/ GenerateFail(p)
    \/ PostProcess(p)

\* POST /chat and nothing else
ChatStep(p) == CallProcess(p) \/ Progress(p) \/ StorageFault(p) \/ Crash(p)

NextChat == ChatStep("p1")

\* either path of the post-processor; the collaborators answer
InitSettings ==
    /\ Fresh
    /\ enabled \in BOOLEAN
    /\ settings = SettingsAt(enabled)
    /\ backend = Working
    /\ index = OneChunk

\* one worker serving chat requests and settings updates
NextSettings == UpdateSettings \/ ChatStep("p1")

SpecSettings == InitSettings /\ [][NextSettings]_vars

\* concurrent pipelines serving chat requests only
NextChats == \E p \in Procs : ChatStep(p)

SpecChats == Init /\ [][NextChats]_vars

\* every collaborator's backend is down: the vector store client cannot be
\* built, the refiner's and the validator's gateway calls are refused
Broken == [vector_db_type |-> "chroma", validator_model |-> ValidatorModel,
           fault |-> "client", refiner_up |-> FALSE,
           reply |-> GatewayFailure("connection refused")]

\* post-processing is on; the collaborators all answer, or all fail
InitChat ==
    /\ Fresh
    /\ enabled = TRUE
    /\ settings = SettingsAt(enabled)
    /\ backend \in {Working, Broken}
    /\ index = IF backend.fault = "none" THEN OneChunk ELSE NoIndex

\* one pipeline serving chat requests, each call run to its end
SpecOneFair == InitChat /\ [][NextChat]_vars /\ WF_vars(Progress("p1"))

\* ------------------------------------------------------------------ claims
IsError(env) == "error" \in DOMAIN env /\ env.error = TRUE

RoleContent(rows) ==
    [i \in 1..Len(rows) |-> [role |-> rows[i].role, content |-> rows[i].content]]

\* C1: when the chat_completion call of Generate fails, the envelope has
\* error = true and the session's stored messages, hence what get_messages
\* returns, are those of right before the call: the call has recorded nothing.
C1_FailedGenerationLeavesHistory ==
    \A p \in Procs :
        (pl[p].stage = "ErrorRespond" /\ pl[p].exc = "GatewayError") =>
            /\ IsError(pl[p].envelope)
            /\ pl[p].written = <<>>
            /\ RowsOf(messages, pl[p].sid) = pl[p].before
            /\ GetMessagesResults(messages, pl[p].sid, DefaultLimit)
                 = GetMessagesResults(pl[p].before, pl[p].sid, DefaultLimit)

\* a generation failure in a session that already holds a turn
C1_Witness ==
    \E p \in Procs :
        /\ pl[p].stage = "ErrorRespond" /\ pl[p].exc = "GatewayError"
        /\ Len(pl[p].before) = 2

\* the two messages of a turn
Turn(r) == <<[role |-> "user", content |-> r.message],
             [role |-> "assistant", content |-> r.processed.response]>>

\* C2: a process call that generated and post-processed appends the user
\* message with the original message, then the assistant message with the
\* post-processed response, and nothing else; at Respond both are stored
\* behind the session's earlier messages and the envelope's response is the
\* assistant message's content.
C2_PersistsOriginalAndProcessed ==
    \A p \in Procs :
        LET r == pl[p] IN
        /\ (r.op = "process" /\ r.stage \in {"PersistUser", "PersistAssistant"}) =>
               /\ RoleContent(r.written) = SubSeq(Turn(r), 1, Len(r.written))
               /\ Len(r.written) = IF r.stage = "PersistUser" THEN 0 ELSE 1
        /\ (r.op = "process" /\ r.stage = "Respond") =>
               /\ RoleContent(r.written) = Turn(r)
               /\ r.written[1].id < r.written[2].id
               /\ RoleContent(RowsOf(messages, r.sid)) = RoleContent(r.before) \o Turn(r)
               /\ r.envelope.response = r.processed.response

\* a successful turn whose refined prompt differs from the message and whose
\* post-processed response differs from the generated content
C2_Witness ==
    \E p \in Procs :
        /\ pl[p].op = "process" /\ pl[p].stage = "Respond"
        /\ pl[p].refined_prompt # pl[p].message
        /\ pl[p].processed.response # pl[p].content

\* C3: a failure of a Memory Store operation during process leaves process as
\* an exception; it is never turned into a returned envelope.
C3_StorageFailurePropagates ==
    \A p \in Procs :
        (pl[p].op = "process" /\ pl[p].exc = "StorageError") => pl[p].stage = "Raised"

SessionRows(tbl, id) == {r \in tbl : r.session_id = id}

\* C4: every stored message's session_id is the id of an existing session row.
C4_MessagesReferenceSessions ==
    \A i \in 1..Len(messages) : SessionRows(sessions, messages[i].session_id) # {}

\* C5: create_session on an id that has a row leaves the row, its timestamps
\* and all messages as they are and returns that id; no id ever has two rows.
C5_CreateSessionIdempotent ==
    /\ [](\A id \in AllIds : Cardinality(SessionRows(sessions, id)) <= 1)
    /\ [][\A p \in Procs :
            (/\ pl[p].mcall = "create_session" /\ pl[p].at >= 1
             /\ pl'[p] # pl[p]
             /\ SessionRows(sessions, pl[p].sid) # {}) =>
                /\ sessions' = sessions
                /\ messages' = messages
                /\ pl[p].session_id # NoSession => pl[p].sid = pl[p].session_id
                /\ (pl[p].at = 2 /\ pl'[p].stage \notin {"Raised", "Crashed"}) =>
                        /\ pl'[p].stage \in {"Returned", "FetchHistory"}
                        /\ pl'[p].sid = pl[p].sid
                        /\ pl'[p].exc = "none"]_vars

\* two create_session calls of one id have both returned; the session has one row
C5_Witness ==
    /\ \A p \in Procs : pl[p].op = "create_session" /\ pl[p].stage = "Returned"
                        /\ pl[p].sid = "s1"
    /\ Cardinality(SessionRows(sessions, "s1")) = 1

\* the min(limit, n) most recently inserted messages of a session, oldest first
MostRecent(msgs, sid, limit) ==
    LET rows == RowsOf(msgs, sid)
        n == Len(rows)
        k == Min(limit, n)
    IN  [i \in 1..k |-> MessageDict(rows[n - k + i])]

\* C6: get_messages(S, limit) returns the min(limit, n) most recently inserted
\* messages of S, oldest first in insertion order.
C6_MostRecentInInsertionOrder ==
    \A p \in Procs :
        (pl[p].op = "get_messages" /\ pl[p].stage = "Returned") =>
            pl[p].result = MostRecent(messages, pl[p].sid, pl[p].limit)

NonDecreasing(ms) ==
    \A i, j \in 1..Len(ms) : i <= j => ms[i].created_at <= ms[j].created_at

\* C7: what get_messages returns is ordered by non-decreasing creation time:
\* the result of every call made, whatever its limit, and every full listing
\* of a session on every table reached.
C7_OrderedByCreationTime ==
    /\ \A p \in Procs :
          (pl[p].op = "get_messages" /\ pl[p].stage = "Returned") =>
              NonDecreasing(pl[p].result)
    /\ \A sid \in {messages[i].session_id : i \in 1..Len(messages)} :
          \A res \in GetMessagesResults(messages, sid, DefaultLimit) : NonDecreasing(res)

\* get_messages has returned two messages of different creation times
C7_Witness ==
    \E p \in Procs :
        /\ pl[p].op = "get_messages" /\ pl[p].stage = "Returned"
        /\ Len(pl[p].result) = 2
        /\ pl[p].result[1].created_at < pl[p].result[2].created_at

\* C8: every step of delete_session(S) either leaves the committed tables as
\* they are (a statement inside the open transaction, a failure, a crash) or
\* removes the row of S and every message of S at once; when it returns,
\* both are gone.
C8_DeleteSessionAtomic ==
    [][\A p \in Procs :
         (pl[p].mcall = "delete_session" /\ pl'[p] # pl[p]) =>
            LET gone == /\ SessionRows(sessions', pl[p].sid) = {}
                        /\ RowsOf(messages', pl[p].sid) = <<>>
            IN  /\ (sessions' = sessions /\ messages' = messages) \/ gone
                /\ pl'[p].stage = "Returned" => gone]_vars

\* delete_session has run both statements and not committed: the committed
\* tables still hold the row and the messages of the session
C8_Witness ==
    \E p \in Procs :
        /\ pl[p].mcall = "delete_session" /\ pl[p].at = 2 /\ wlock = p
        /\ SessionRows(sessions, pl[p].sid) # {}
        /\ Len(RowsOf(messages, pl[p].sid)) = 2
        /\ SessionRows(work.sessions, pl[p].sid) = {}
        /\ RowsOf(work.messages, pl[p].sid) = <<>>

\* C9: a step of an operation on session A leaves the row and the messages of
\* every other session as they are.
C9_OtherSessionsUntouched ==
    [][\A p \in Procs :
         pl'[p] # pl[p] =>
            \A b \in AllIds \ {pl[p].sid, pl'[p].sid} :
                /\ SessionRows(sessions', b) = SessionRows(sessions, b)
                /\ RowsOf(messages', b) = RowsOf(messages, b)]_vars

\* delete_session has returned while another session holds messages
C9_Witness ==
    \E p \in Procs :
        /\ pl[p].op = "delete_session" /\ pl[p].stage = "Returned"
        /\ \E i \in 1..Len(messages) : messages[i].session_id # pl[p].sid

\* C10: a stored message stays as it is (role, content, created_at) in every
\* step, unless the step is one of delete_session on the message's session.
C10_MessagesImmutable ==
    [][\A i \in 1..Len(messages) :
         \/ \E j \in 1..Len(messages') : messages'[j] = messages[i]
         \/ \E p \in Procs : /\ pl[p].mcall = "delete_session"
                             /\ pl[p].sid = messages[i].session_id
                             /\ pl'[p] # pl[p]]_vars

\* a second turn has been stored behind the first one
C10_Witness ==
    \E p \in Procs :
        /\ pl[p].op = "process" /\ pl[p].stage = "Respond"
        /\ Len(pl[p].before) = 2
        /\ Len(RowsOf(messages, pl[p].sid)) = 4

\* ------------------------------------------------- claims: the collaborators
\* C11: refine never raises, whatever the prompt, the context and the way the
\* refiner's gateway call ends; when the gateway call fails, refine returns
\* the prompt it was given, unmodified.
C11_RefineFailsOpen ==
    cp.op = "refine" =>
        /\ cp.exc = "none"
        /\ cp.reply.kind = "error" => cp.text = cp.arg

\* refine has returned a prompt, passed with a context, after its gateway
\* call failed
C11_Witness ==
    /\ cp.op = "refine" /\ cp.reply.kind = "error"
    /\ cp.arg = "Hello" /\ cp.context # "" /\ cp.text = "Hello"

\* the cases in which the store has nothing to return, or a step failed
NothingToFind(c) ==
    \/ backend.vector_db_type # "chroma"
    \/ c.fault # "none"
    \/ ~index.exists
    \/ Len(index.docs) = 0

\* C12: search never raises; it returns the empty sequence when the index is
\* empty, when there is no collection yet, when the vector backend is
\* unavailable and when a step of the retrieval path fails.
C12_SearchNeverRaises ==
    cp.op = "search" =>
        /\ cp.exc = "none"
        /\ NothingToFind(cp) => cp.results = <<>>

\* the query on a collection that holds chunks has failed, and search has
\* returned the empty sequence
C12_Witness ==
    /\ cp.op = "search" /\ cp.fault = "query" /\ cp.top_k > 0
    /\ Len(index.docs) > 0
    /\ cp.results = <<>> /\ cp.exc = "none"

\* C13: search with top_k = 0 returns the empty sequence without raising,
\* called directly and called through the context-search service operation.
C13_TopKZeroIsEmpty ==
    (cp.op \in {"search", "service_search"} /\ cp.top_k = 0) =>
        /\ cp.exc = "none"
        /\ cp.results = <<>>

\* C14: the index holds every chunk handed to add_chunks while the store was
\* available (as many documents as chunks passed over all calls), each under
\* an identifier of its own.
C14_AddChunksAppends ==
    /\ Len(index.docs) = offered
    /\ \A i, j \in 1..Len(index.docs) : index.docs[i].id = index.docs[j].id => i = j

\* C15: with post-processing disabled, process returns the response as it
\* came, valid, without issues, not validated, and calls no gateway.
C15_DisabledPassthrough ==
    (cp.op = "process" /\ ~enabled) =>
        /\ cp.processed = [response |-> cp.arg, valid |-> TRUE, issues |-> <<>>,
                           validated |-> FALSE]
        /\ cp.gateway_calls = 0

\* the disabled post-processor has returned a response that formatting and
\* basic validation would both have touched
C15_Witness ==
    /\ cp.op = "process" /\ ~enabled
    /\ FormatResponse(cp.arg) # cp.arg
    /\ BasicValidation(cp.arg) # <<>>
    /\ cp.processed.response = cp.arg

\* the model-based validation ran on the call recorded in c
ModelValidated(c) ==
    c.op = "process" /\ enabled /\ DistinctValidator(backend.validator_model)

\* C16: with post-processing enabled, whether a distinct validator model is
\* configured or not, the outcome is validated, its issues are the tags of
\* basic validation followed by those of the model-based validation, and valid
\* is false whenever basic validation produced an issue or the model-based
\* validation judged the response invalid.
C16_ValidFalseOnAnyIssue ==
    (cp.op = "process" /\ enabled) =>
        LET basic == BasicValidation(cp.arg)
            model == IF ModelValidated(cp) THEN ValidateWithLlm(cp.reply)
                     ELSE [passed |-> TRUE, issues |-> <<>>]
        IN  /\ cp.processed.validated
            /\ cp.processed.issues = basic \o model.issues
            /\ (Len(basic) > 0 \/ ~model.passed) => ~cp.processed.valid

\* C17: the model-based validation goes by the validator's one-word reply: on
\* VALID it passes and records no issue; on INVALID the response is judged
\* invalid, valid is false and an issue is recorded.
C17_ValidIffReplyIsValid ==
    (ModelValidated(cp) /\ cp.reply.kind = "text") =>
        LET basic == BasicValidation(cp.arg) IN
        /\ Strip(cp.reply.content) = "VALID" =>
              /\ cp.processed.valid
              /\ cp.processed.issues = basic
        /\ Strip(cp.reply.content) = "INVALID" =>
              /\ ~cp.processed.valid
              /\ Len(cp.processed.issues) = Len(basic) + 1

\* C18: when the validator's gateway call fails, process returns (an outcome,
\* no exception), with exactly one issue "validation_error: <detail>" behind
\* those of basic validation, and with valid true unless something other than
\* that issue was found.
C18_ValidatorFailsOpen ==
    (ModelValidated(cp) /\ cp.reply.kind = "error") =>
        LET basic == BasicValidation(cp.arg) IN
        /\ cp.exc = "none"
        /\ cp.processed.validated
        /\ cp.processed.issues = basic \o <<"validation_error: " \o cp.reply.detail>>
        /\ Len(basic) = 0 => cp.processed.valid

\* the validator has failed on a response that basic validation finds nothing
\* against
C18_Witness ==
    /\ ModelValidated(cp) /\ cp.reply.kind = "error"
    /\ BasicValidation(cp.arg) = <<>>
    /\ Len(cp.processed.issues) = 1
    /\ cp.processed.valid

\* ----------------------------------------------- claims: the pipeline again
\* C19: a failing Context Retriever or Prompt Refiner never ends a process
\* call: each of the two stages is followed by the next one, and the call is at
\* Generate with the empty context string and context_used = false when
\* retrieval failed, and with the original message as refined_prompt when
\* refinement failed.
C19_RetrievalAndRefinementFailOpen ==
    /\ [](\A p \in Procs :
            (pl[p].op = "process" /\ pl[p].stage = "Generate") =>
                /\ backend.fault # "none" =>
                      pl[p].context_text = "" /\ ~pl[p].context_used
                /\ ~backend.refiner_up => pl[p].refined_prompt = pl[p].message)
    /\ [][\A p \in Procs :
            (/\ pl[p].op = "process"
             /\ pl[p].stage \in {"RetrieveContext", "RefinePrompt"}
             /\ pl'[p] # pl[p]) =>
                /\ pl'[p].op = "process"
                /\ pl'[p].stage = StageAfter(pl[p].stage)]_vars

\* a call is at Generate after both its retrieval and its refinement failed
C19_Witness ==
    \E p \in Procs :
        /\ pl[p].op = "process" /\ pl[p].stage = "Generate"
        /\ backend.fault # "none" /\ ~backend.refiner_up
        /\ pl[p].refined_prompt = "Hello"

\* C20: process resolves the session before anything else: without a
\* session_id it generates one that is not empty and that no session or message
\* has carried, with one it uses that one; the envelope of either terminal
\* state carries the resolved id, and a session row with that id exists (one
\* pipeline: no delete_session runs beside the call).
C20_SessionResolvedFirst ==
    /\ [](\A p \in Procs :
            (pl[p].op = "process" /\ pl[p].stage \in {"Respond", "ErrorRespond"}) =>
                /\ pl[p].envelope.session_id # NoSession
                /\ pl[p].session_id # NoSession =>
                      pl[p].envelope.session_id = pl[p].session_id
                /\ pl[p].session_id = NoSession =>
                      pl[p].envelope.session_id \notin SessionIds
                /\ SessionRows(sessions, pl[p].envelope.session_id) # {})
    /\ [][\A p \in Procs :
            (/\ pl[p].op = "process" /\ pl[p].stage = "ResolveSession"
             /\ pl[p].at = 0 /\ pl'[p].at = 1) =>
                /\ pl'[p].sid # NoSession
                /\ pl[p].session_id # NoSession => pl'[p].sid = pl[p].session_id
                /\ pl[p].session_id = NoSession =>
                      /\ SessionRows(sessions, pl'[p].sid) = {}
                      /\ RowsOf(messages, pl'[p].sid) = <<>>]_vars

\* a call made without a session_id has ended in the error envelope, which
\* carries the generated id
C20_Witness ==
    \E p \in Procs :
        /\ pl[p].op = "process" /\ pl[p].stage = "ErrorRespond"
        /\ pl[p].session_id = NoSession
        /\ pl[p].envelope.session_id = "u1"

\* the payload a variant expects: choices[0].message.content, message.content
WellFormed(variant, body) ==
    IF variant = "lmstudio"
    THEN /\ "choices" \in DOMAIN body /\ Len(body.choices) > 0
         /\ "message" \in DOMAIN body.choices[1]
         /\ "content" \in DOMAIN body.choices[1].message
    ELSE "message" \in DOMAIN body /\ "content" \in DOMAIN body.message

\* the three failure cases: no response, a non-2xx response, a 2xx response
\* whose payload is malformed
GatewayFailureCase(variant, http) ==
    \/ http.kind = "network"
    \/ http.status \notin 200..299
    \/ ~WellFormed(variant, http.body)

\* C21: in each failure case (network failure, non-2xx response, malformed
\* payload) chat_completion of either variant ends in the gateway's own error
\* and returns no result.
C21_FailuresEndInGatewayError ==
    (cp.op = "chat_completion" /\ GatewayFailureCase(cp.arg, cp.http))
        => cp.exc = "GatewayError"
\* a process call is under way
Processing(p) == pl[p].op = "process" /\ pl[p].stage \notin Ended

\* C22: a process call whose store operations succeed ends in Respond or in
\* ErrorRespond; the only exception that ever leaves process is a store
\* failure (no failure of the gateway, of retrieval, of refinement or of
\* validation does); and a call makes at most one chat_completion call.
C22_EndsInRespondOrErrorRespond ==
    /\ [](\A p \in Procs :
            /\ (pl[p].op = "process" /\ pl[p].stage = "Raised")
                    => pl[p].exc = "StorageError"
            /\ pl[p].attempts <= 1
            /\ pl[p].stage = "ErrorRespond" => IsError(pl[p].envelope)
            /\ pl[p].stage = "Respond" => ~IsError(pl[p].envelope))
    /\ \A p \in Procs :
          Processing(p) ~> (\/ pl[p].stage \in {"Respond", "ErrorRespond"}
                            \/ (pl[p].stage = "Raised" /\ pl[p].exc = "StorageError")
                            \/ pl[p].stage = "Crashed")

\* a call has ended in ErrorRespond after its one chat_completion call failed,
\* with retrieval and refinement failing before it
C22_Witness ==
    /\ backend.fault = "client" /\ ~backend.refiner_up
    /\ pl["p1"].op = "process" /\ pl["p1"].stage = "ErrorRespond"
    /\ pl["p1"].exc = "GatewayError" /\ pl["p1"].attempts = 1
\* the place of a stage in the order of process
StageRank(stage) ==
    CASE stage = "ResolveSession"   -> 1     \* create_session
      [] stage = "FetchHistory"     -> 2     \* get_session_history
      [] stage = "RetrieveContext"  -> 3     \* context search
      [] stage = "RefinePrompt"     -> 4     \* refine
      [] stage = "Generate"         -> 5     \* chat_completion
      [] stage = "PostProcess"      -> 6     \* post-process
      [] stage = "PersistUser"      -> 7     \* add_message(user)
      [] stage = "PersistAssistant" -> 8     \* add_message(assistant)
      [] stage = "Respond"          -> 9
      [] OTHER                      -> 0

\* the stage has returned: the step is not one inside its store call
Returns(r) ==
    CASE r.mcall = "create_session" -> r.at = 2
      [] r.mcall = "add_message"    -> r.at = 3
      [] OTHER                      -> TRUE

\* C23: within a process call the stages run once each in the order
\* create_session, get_session_history, search, refine, chat_completion,
\* post-process, add_message(user), add_message(assistant); a stage starts
\* only when the one before it has returned; add_message runs only after
\* chat_completion and post-processing have returned normally.
C23_StagesInOrder ==
    /\ [](\A p \in Procs : pl[p].op = "process" =>
            /\ pl[p].mcall = "create_session" => pl[p].stage = "ResolveSession"
            /\ pl[p].mcall = "get_messages" => pl[p].stage = "FetchHistory"
            /\ pl[p].mcall = "add_message" =>
                    /\ pl[p].stage \in {"PersistUser", "PersistAssistant"}
                    /\ pl[p].attempts = 1
                    /\ pl[p].processed # NoProcessed
            /\ Len(pl[p].written) =
                    (IF pl[p].stage \in {"PersistAssistant"} THEN 1
                     ELSE IF pl[p].stage = "Respond" THEN 2
                     ELSE IF pl[p].stage = "ErrorRespond" THEN Len(pl[p].written)
                     ELSE 0))
    /\ [][\A p \in Procs :
            (Processing(p) /\ pl'[p].stage # pl[p].stage) =>
                \/ /\ pl'[p].op = "process"
                   /\ StageRank(pl'[p].stage) = StageRank(pl[p].stage) + 1
                   /\ Returns(pl[p])
                \/ pl'[p].stage \in {"ErrorRespond", "Raised", "Crashed"}]_vars
    /\ [][\A p \in Procs :
            (~Processing(p) /\ pl'[p].op = "process" /\ pl'[p] # pl[p])
                => pl'[p].stage = "ResolveSession"]_vars

\* a call has run all eight stages and answers, with context found
C23_Witness ==
    /\ pl["p1"].op = "process" /\ pl["p1"].stage = "Respond"
    /\ Len(pl["p1"].written) = 2 /\ pl["p1"].attempts = 1
    /\ pl["p1"].context_used
Appended(p) == Len(RowsOf(messages, pl[p].sid)) - Len(pl[p].before)

\* C25: a process call appends no message or the two of its turn, also when
\* the store fails between the two add_message calls; a call that returns an
\* envelope with error = true has appended none.
C25_PersistAllOrNothing ==
    \A p \in Procs :
        (pl[p].op = "process" /\ pl[p].stage \in {"Respond", "ErrorRespond"}) =>
            /\ Appended(p) \in {0, 2}
            /\ IsError(pl[p].envelope) => Appended(p) = 0
\* C26: in the committed tables, the updated_at of every session is at least
\* the created_at of each of its messages, whatever the interleaving of
\* add_message calls and wherever a worker dies inside add_message.
C26_UpdatedAtCoversMessages ==
    \A r \in sessions :
        \A i \in 1..Len(messages) :
            messages[i].session_id = r.session_id
                => r.updated_at >= messages[i].created_at
\* the place of the row with identifier id among rows
PlaceOf(rows, id) == CHOOSE i \in 1..Len(rows) : rows[i].id = id

\* the process calls that have answered with a success envelope for sid
Succeeded(sid) ==
    {p \in Procs : pl[p].op = "process" /\ pl[p].stage = "Respond" /\ pl[p].sid = sid}

\* C27: whatever the interleaving of process calls on a session, get_messages
\* lists the user message of a successful call before that call's assistant
\* message, and the k calls that have succeeded have 2k messages stored.
C27_TurnsListedInOrder ==
    \A sid \in AllIds :
        LET rows == RowsOf(messages, sid)
            ids  == {pl[p].written[i].id : p \in Succeeded(sid), i \in 1..2}
        IN  /\ Cardinality(ids) = 2 * Cardinality(Succeeded(sid))
            /\ \A id \in ids : \E i \in 1..Len(rows) : rows[i].id = id
            /\ \A p \in Succeeded(sid) :
                 \A o \in DescOrders(rows, 1..Len(rows)) :
                    LET listing == Reversed(o)
                        user      == PlaceOf(rows, pl[p].written[1].id)
                        assistant == PlaceOf(rows, pl[p].written[2].id)
                    IN  \A i, j \in 1..Len(listing) :
                            (listing[i] = user /\ listing[j] = assistant) => i < j
\* C28: a response the post-processor finds invalid is stored and answered
\* like any other: after post-processing the call goes on to Persist whatever
\* valid is, and at Respond both messages are stored and the envelope has no
\* error flag and carries the post-processor's valid.
C28_ValidationGatesNothing ==
    /\ [](\A p \in Procs :
            (pl[p].op = "process" /\ pl[p].stage = "Respond") =>
                /\ ~IsError(pl[p].envelope)
                /\ pl[p].envelope.valid = pl[p].processed.valid
                /\ pl[p].envelope.response = pl[p].processed.response
                /\ RoleContent(pl[p].written) = Turn(pl[p]))
    /\ [][\A p \in Procs :
            (pl[p].op = "process" /\ pl[p].stage = "PostProcess" /\ pl'[p] # pl[p])
                => /\ pl'[p].stage = "PersistUser"
                   /\ pl'[p].mcall = "add_message"]_vars

\* a call whose response was found invalid has stored its turn and answered
C28_Witness ==
    /\ pl["p1"].op = "process" /\ pl["p1"].stage = "Respond"
    /\ ~pl["p1"].processed.valid /\ ~pl["p1"].envelope.valid
    /\ Len(pl["p1"].written) = 2
    /\ Appended("p1") = 2
\* C29: the path of the post-processor is the one fixed at construction:
\* update_settings never changes post_processor.enabled, and in every process
\* call post_processor.process takes the Enabled path (validated = true)
\* exactly if the post-processor was built enabled, whatever
\* settings.enable_post_processor has become.
C29_PathFixedAtConstruction ==
    /\ [][enabled' = enabled]_vars
    /\ [](\A p \in Procs :
            (pl[p].op = "process"
                /\ pl[p].stage \in {"PersistUser", "PersistAssistant", "Respond"})
                => /\ pl[p].processed.validated = enabled
                   /\ ~enabled => pl[p].processed.response = pl[p].content)
    /\ [](\A p \in Procs :
            (pl[p].op = "process" /\ pl[p].stage = "Respond")
                => pl[p].envelope.validated = enabled)

\* the setting was switched after construction; a chat request served after
\* that has followed the captured value
C29_Witness ==
    /\ settings.enable_post_processor # enabled
    /\ pl["p1"].op = "process" /\ pl["p1"].stage = "Respond"
    /\ pl["p1"].envelope.validated = enabled
    /\ pl["p1"].processed.validated = enabled
\* the character at place i of text lies in a chunk: the chunk is a piece of
\* the text that spans the place
Covered(text, chunks, i) ==
    \E k \in 1..Len(chunks) :
        \E o \in 1..i :
            /\ i <= o + Len(chunks[k]) - 1
            /\ o + Len(chunks[k]) - 1 <= Len(text)
            /\ SubSeq(text, o, o + Len(chunks[k]) - 1) = chunks[k]

\* C30: for chunk_overlap < chunk_size, _simple_chunking returns, and what
\* it returns are non-empty chunks of at most chunk_size characters in which
\* every non-whitespace character of the text lies.
C30_SimpleChunkingTerminatesAndCovers ==
    /\ (cp.op = "simple_chunking") ~> (cp.op = "simple_chunking" /\ cp.returned)
    /\ [](cp.op = "simple_chunking" =>
            /\ Len(cp.chunks) <= Len(cp.text)
            /\ cp.returned =>
                 /\ \A k \in 1..Len(cp.result) :
                        /\ cp.result[k] # ""
                        /\ Len(cp.result[k]) <= cp.chunk_size
                 /\ \A i \in 1..Len(cp.text) :
                        SubSeq(cp.text, i, i) \notin Whitespace
                            => Covered(cp.text, cp.result, i))

\* a call has returned overlapping chunks, one of them shortened by strip()
\* and one dropped for being empty
C30_Witness ==
    /\ cp.op = "simple_chunking" /\ cp.returned
    /\ cp.chunk_overlap > 0
    /\ Len(cp.result) >= 2 /\ Len(cp.result) < Len(cp.chunks)
    /\ \E k \in 1..Len(cp.result) : Len(cp.result[k]) < cp.chunk_size
====
